---------------------------- MODULE Spec2Model ----------------------------
(***************************************************************************)
(* Model of src/src/lib.rs: to_greek(n, case), the conversion of a usize   *)
(* to its Greek alphabetic numeral.  A String is the sequence of its       *)
(* Unicode code points; a glyph of the tables is the sequence of the code  *)
(* points of its &str.  One behaviour is a caller invoking to_greek again  *)
(* and again; `prev` keeps what the previous invocation returned.          *)
(***************************************************************************)
EXTENDS Integers, Sequences, FiniteSets, TLC

(* ------------------------------ bounds -------------------------------- *)

\* The most significant 4-digit group of an input ranges over 0..MaxTop.
MaxTop == 1

\* The values the two lower 4-digit groups of an input range over: all-zero,
\* ones only, no thousand, thousand with inner zeros, all four digits; between
\* them they hold every digit 0..9.
ChunkValues == {0, 1, 241, 1005, 5683, 9797}

Inputs == {a * 100000000 + b * 10000 + c :
             a \in 0..MaxTop, b \in ChunkValues, c \in ChunkValues}

(* ------------------------------ glyphs -------------------------------- *)

ZeroSign == 65930
Myriad == 924
Keraia == 884
Comma == 44
Space == 32

thousands ==
  << << <<885, 945>>, <<885, 913>> >>,
     << <<885, 946>>, <<885, 914>> >>,
     << <<885, 947>>, <<885, 915>> >>,
     << <<885, 948>>, <<885, 916>> >>,
     << <<885, 949>>, <<885, 917>> >>,
     << <<885, 987>>, <<885, 986>> >>,
     << <<885, 950>>, <<885, 918>> >>,
     << <<885, 951>>, <<885, 919>> >>,
     << <<885, 952>>, <<885, 920>> >> >>

hundreds ==
  << << <<961>>, <<929>> >>,
     << <<963>>, <<931>> >>,
     << <<964>>, <<932>> >>,
     << <<965>>, <<933>> >>,
     << <<966>>, <<934>> >>,
     << <<967>>, <<935>> >>,
     << <<968>>, <<936>> >>,
     << <<969>>, <<937>> >>,
     << <<993>>, <<992>> >> >>

tens ==
  << << <<953>>, <<921>> >>,
     << <<954>>, <<922>> >>,
     << <<955>>, <<923>> >>,
     << <<956>>, <<924>> >>,
     << <<957>>, <<925>> >>,
     << <<958>>, <<926>> >>,
     << <<959>>, <<927>> >>,
     << <<960>>, <<928>> >>,
     << <<985>>, <<990>> >> >>

ones ==
  << << <<945>>, <<913>> >>,
     << <<946>>, <<914>> >>,
     << <<947>>, <<915>> >>,
     << <<948>>, <<916>> >>,
     << <<949>>, <<917>> >>,
     << <<987>>, <<986>> >>,
     << <<950>>, <<918>> >>,
     << <<951>>, <<919>> >>,
     << <<952>>, <<920>> >> >>

(* ------------------------------- state -------------------------------- *)

VARIABLES
  pc,                   \* position in to_greek: call, extract, pad, chunks, done, panic
  n_arg,                \* the argument n
  case,                 \* the argument case
  n,                    \* let mut n = n
  decimal_digits,
  M_power,
  previous_has_number,
  chunk_idx,            \* how many chunks the chunks_exact iterator has yielded
  fmt,
  prev                  \* the previous invocation: <<>> or <<[n, case, fmt]>>

vars == <<pc, n_arg, case, n, decimal_digits, M_power, previous_has_number,
          chunk_idx, fmt, prev>>

(* ------------------------------ helpers ------------------------------- *)

\* usize::MAX, what 0 - 1 wraps to, written as the two's complement -1.
WrappedMax == -1

\* What an out-of-range array index yields: the access panics.
OutOfBounds == <<-1>>

\* table[row][col], rows and columns counted from 0 as in the source.
Index(table, row, col) ==
  IF row \in 0..(Len(table) - 1) /\ col \in 0..1
    THEN table[row + 1][col + 1]
    ELSE OutOfBounds

\* let case = match case { Lower => 0, Upper => 1 }
CaseColumn(c) == IF c = "Lower" THEN 0 ELSE 1

Reverse(s) == [k \in 1..Len(s) |-> s[Len(s) + 1 - k]]

\* Option<&str>
None == <<>>
Some(x) == <<x>>

\* assert!(M_power <= 9), reached only when M_power != 0
get_M_prefix_assert(p) == p = 0 \/ p \in 1..9

\* Faulty variant: the prefix glyph taken from the requested case's column.
get_M_prefix_cased(p) ==
  IF p = 0 THEN None ELSE Some(Index(ones, p - 1, CaseColumn(case)))

\* |M_power| match: None for 0, else Some(ones[M_power - 1][0])
get_M_prefix(p) ==
  IF p = 0 THEN None ELSE Some(Index(ones, p - 1, 0))

\* if let Some(m_prefix) = get_M_prefix(M_power) { push_str(m_prefix); push('Μ') }
MPrefixText(opt) == IF opt = None THEN <<>> ELSE opt[1] \o <<Myriad>>

\* Faulty variant: the separator pushed before every rendered chunk.
Separator_always(has) == <<Comma, Space>>

\* if previous_has_number { fmt.push_str(", ") }
Separator(has) == IF has THEN <<Comma, Space>> ELSE <<>>

\* Faulty variant: the table indexed without the test for a zero digit.
PlaceGlyph_unguarded(table, d, col) == Index(table, d - 1, col)

\* if d != 0 { fmt.push_str(table[d - 1][case]) }
PlaceGlyph(table, d, col) ==
  IF d # 0 THEN Index(table, d - 1, col) ELSE <<>>

\* Faulty variant: the keraia pushed after every chunk.
Terminal_always(th) == <<Keraia>>

\* if th == 0 { fmt.push('ʹ') }
Terminal(th) == IF th = 0 THEN <<Keraia>> ELSE <<>>

\* if M_power > 0 { M_power = M_power.saturating_sub(1) }
DecrementMPower(p) == IF p > 0 THEN (IF p - 1 < 0 THEN 0 ELSE p - 1) ELSE p

\* Faulty variant: the zero sign closed by a keraia like a numeral.
ZeroResult_marked == <<ZeroSign, Keraia>>

\* '𐆊'.into()
ZeroResult == <<ZeroSign>>

(* ---------------------------- initial state --------------------------- *)

Cases == {"Lower", "Upper"}

Init ==
  /\ pc = "call"
  /\ n_arg \in Inputs
  /\ case \in Cases
  /\ n = 0
  /\ decimal_digits = <<>>
  /\ M_power = 0
  /\ previous_has_number = FALSE
  /\ chunk_idx = 0
  /\ fmt = <<>>
  /\ prev = <<>>

(* ------------------------------ actions ------------------------------- *)

\* if n == 0 { return '𐆊'.into(); }
ReturnZero ==
  /\ pc = "call"
  /\ n_arg = 0
  /\ fmt' = ZeroResult
  /\ pc' = "done"
  /\ UNCHANGED <<n_arg, case, n, decimal_digits, M_power,
                 previous_has_number, chunk_idx, prev>>

\* let mut fmt = String::new(); let mut decimal_digits = Vec::new(); let mut n = n;
Begin ==
  /\ pc = "call"
  /\ n_arg # 0
  /\ fmt' = <<>>
  /\ decimal_digits' = <<>>
  /\ n' = n_arg
  /\ pc' = "extract"
  /\ UNCHANGED <<n_arg, case, M_power, previous_has_number, chunk_idx, prev>>

\* while n > 0 { decimal_digits.push(n % 10); n /= 10; }
ExtractDigit ==
  /\ pc = "extract"
  /\ n > 0
  /\ decimal_digits' = Append(decimal_digits, n % 10)
  /\ n' = n \div 10
  /\ UNCHANGED <<pc, n_arg, case, M_power, previous_has_number, chunk_idx,
                 fmt, prev>>

ExtractEnd ==
  /\ pc = "extract"
  /\ ~(n > 0)
  /\ pc' = "pad"
  /\ UNCHANGED <<n_arg, case, n, decimal_digits, M_power,
                 previous_has_number, chunk_idx, fmt, prev>>

\* while decimal_digits.len() % 4 != 0 { decimal_digits.push(0); }
PadZero ==
  /\ pc = "pad"
  /\ Len(decimal_digits) % 4 # 0
  /\ decimal_digits' = Append(decimal_digits, 0)
  /\ UNCHANGED <<pc, n_arg, case, n, M_power, previous_has_number, chunk_idx,
                 fmt, prev>>

\* Faulty variant: the digits left least significant first.
PadEnd_unreversed ==
  /\ pc = "pad"
  /\ Len(decimal_digits) % 4 = 0
  /\ IF Len(decimal_digits) \div 4 - 1 < 0
       THEN /\ pc' \in {"panic", "chunks"}
            /\ M_power' = IF pc' = "panic" THEN M_power ELSE WrappedMax
            /\ UNCHANGED <<decimal_digits, previous_has_number, chunk_idx>>
       ELSE /\ decimal_digits' = decimal_digits
            /\ M_power' = Len(decimal_digits) \div 4 - 1
            /\ previous_has_number' = FALSE
            /\ chunk_idx' = 0
            /\ pc' = "chunks"
  /\ UNCHANGED <<n_arg, case, n, fmt, prev>>

\* decimal_digits.reverse(); let mut M_power = decimal_digits.len() / 4 - 1;
\* let mut previous_has_number = false;
\* A usize subtraction that underflows panics in a debug build and wraps in a
\* release build.
PadEnd ==
  /\ pc = "pad"
  /\ Len(decimal_digits) % 4 = 0
  /\ IF Len(decimal_digits) \div 4 - 1 < 0
       THEN /\ pc' \in {"panic", "chunks"}
            /\ M_power' = IF pc' = "panic" THEN M_power ELSE WrappedMax
            /\ UNCHANGED <<decimal_digits, previous_has_number, chunk_idx>>
       ELSE /\ decimal_digits' = Reverse(decimal_digits)
            /\ M_power' = Len(decimal_digits) \div 4 - 1
            /\ previous_has_number' = FALSE
            /\ chunk_idx' = 0
            /\ pc' = "chunks"
  /\ UNCHANGED <<n_arg, case, n, fmt, prev>>

\* decimal_digits.chunks_exact(4)
NumChunks == Len(decimal_digits) \div 4
Chunk(i) == SubSeq(decimal_digits, 4 * i + 1, 4 * i + 4)
AllZero(chunk) == chunk[1] + chunk[2] + chunk[3] + chunk[4] = 0

\* Faulty variant: M_power decremented for a skipped chunk too.
SkipChunk_decrementing ==
  /\ pc = "chunks"
  /\ chunk_idx < NumChunks
  /\ AllZero(Chunk(chunk_idx))
  /\ chunk_idx' = chunk_idx + 1
  /\ M_power' = DecrementMPower(M_power)
  /\ UNCHANGED <<pc, n_arg, case, n, decimal_digits, previous_has_number,
                 fmt, prev>>

\* if th + h + t + o == 0 { continue; }
SkipChunk ==
  /\ pc = "chunks"
  /\ chunk_idx < NumChunks
  /\ AllZero(Chunk(chunk_idx))
  /\ chunk_idx' = chunk_idx + 1
  /\ UNCHANGED <<pc, n_arg, case, n, decimal_digits, M_power,
                 previous_has_number, fmt, prev>>

\* What one iteration of the loop body pushes onto fmt, piece by piece.
ChunkPieces(chunk, col, p, has) ==
  << Separator(has),
     MPrefixText(get_M_prefix(p)),
     PlaceGlyph(thousands, chunk[1], col),
     PlaceGlyph(hundreds, chunk[2], col),
     PlaceGlyph(tens, chunk[3], col),
     PlaceGlyph(ones, chunk[4], col),
     Terminal(chunk[1]) >>

Concat(ps) == ps[1] \o ps[2] \o ps[3] \o ps[4] \o ps[5] \o ps[6] \o ps[7]

\* An assertion of the body fails or a table index is out of range.
ChunkPanics(chunk, col, p, has) ==
  \/ Len(chunk) # 4
  \/ ~get_M_prefix_assert(p)
  \/ \E k \in 1..7 : \E j \in 1..Len(ChunkPieces(chunk, col, p, has)[k]) :
        ChunkPieces(chunk, col, p, has)[k][j] < 0

\* The body of the loop for a chunk that is not all-zero (lines 142-173).
RenderChunk ==
  /\ pc = "chunks"
  /\ chunk_idx < NumChunks
  /\ ~AllZero(Chunk(chunk_idx))
  /\ LET chunk == Chunk(chunk_idx)
         col == CaseColumn(case)
     IN IF ChunkPanics(chunk, col, M_power, previous_has_number)
          THEN /\ pc' = "panic"
               /\ UNCHANGED <<fmt, M_power, previous_has_number, chunk_idx>>
          ELSE /\ fmt' = fmt \o Concat(ChunkPieces(chunk, col, M_power,
                                                   previous_has_number))
               /\ M_power' = DecrementMPower(M_power)
               /\ previous_has_number' = TRUE
               /\ chunk_idx' = chunk_idx + 1
               /\ pc' = pc
  /\ UNCHANGED <<n_arg, case, n, decimal_digits, prev>>

\* The iterator is exhausted: fmt is returned.
LoopEnd ==
  /\ pc = "chunks"
  /\ ~(chunk_idx < NumChunks)
  /\ pc' = "done"
  /\ UNCHANGED <<n_arg, case, n, decimal_digits, M_power,
                 previous_has_number, chunk_idx, fmt, prev>>

\* The caller keeps the returned String and calls to_greek again
\* (to_greek_lowercase / to_greek_uppercase).
NextCall ==
  /\ pc = "done"
  /\ prev' = <<[n |-> n_arg, case |-> case, fmt |-> fmt]>>
  /\ n_arg' \in Inputs
  /\ case' \in Cases
  /\ pc' = "call"
  /\ n' = 0
  /\ decimal_digits' = <<>>
  /\ M_power' = 0
  /\ previous_has_number' = FALSE
  /\ chunk_idx' = 0
  /\ fmt' = <<>>

Next ==
  \/ ReturnZero
  \/ Begin
  \/ ExtractDigit
  \/ ExtractEnd
  \/ PadZero
  \/ PadEnd
  \/ SkipChunk
  \/ RenderChunk
  \/ LoopEnd
  \/ NextCall

Spec == Init /\ [][Next]_vars

(* ----------------------- what the claims speak of --------------------- *)

\* The 4-digit group of x that has j groups to its right, and the number of
\* groups of x, from the arithmetic of x alone.
RECURSIVE ChunkAt(_, _)
ChunkAt(x, j) == IF j = 0 THEN x % 10000 ELSE ChunkAt(x \div 10000, j - 1)

RECURSIVE TotalChunks(_)
TotalChunks(x) == IF x < 10000 THEN 1 ELSE 1 + TotalChunks(x \div 10000)

RECURSIVE DigitAt(_, _)
DigitAt(x, p) == IF p = 0 THEN x % 10 ELSE DigitAt(x \div 10, p - 1)

RECURSIVE NumDigits(_)
NumDigits(x) == IF x < 10 THEN 1 ELSE 1 + NumDigits(x \div 10)

NonZeroChunks(x) == {j \in 0..(TotalChunks(x) - 1) : ChunkAt(x, j) # 0}

Max(a, b) == IF a >= b THEN a ELSE b

LowerOnes == {ones[r][1][1] : r \in 1..9}

StartsWithSeparator(s) == Len(s) >= 2 /\ s[1] = Comma /\ s[2] = Space
EndsWithSeparator(s) ==
  Len(s) >= 2 /\ s[Len(s) - 1] = Comma /\ s[Len(s)] = Space
SeparatorsAt(s) == {i \in 1..(Len(s) - 1) : s[i] = Comma /\ s[i + 1] = Space}
StripSeparator(s) == IF StartsWithSeparator(s) THEN SubSeq(s, 3, Len(s)) ELSE s

\* A lowercase ones glyph followed by the myriad letter, at position i of s.
MyriadPrefixAt(s, i) ==
  i + 1 <= Len(s) /\ s[i] \in LowerOnes /\ s[i + 1] = Myriad
StripMyriadPrefix(s) == IF MyriadPrefixAt(s, 1) THEN SubSeq(s, 3, Len(s)) ELSE s

\* The text of the myriad marking for power j.
MarkingFor(j) == IF j > 0 THEN <<ones[j][1][1], Myriad>> ELSE <<>>
CarriesMarking(s, j) ==
  IF j > 0 THEN Len(s) >= 2 /\ SubSeq(s, 1, 2) = MarkingFor(j)
           ELSE ~MyriadPrefixAt(s, 1)

\* A step of the chunk loop that renders a chunk, and what it appends to fmt.
RenderStep == pc = "chunks" /\ pc' = "chunks" /\ fmt' # fmt
SkipStep == pc = "chunks" /\ pc' = "chunks" /\ chunk_idx' # chunk_idx /\ fmt' = fmt
Emitted == SubSeq(fmt', Len(fmt) + 1, Len(fmt'))

\* The chunks before chunk i that are not all-zero.
RenderedBefore(i) == {k \in 0..(i - 1) : ~AllZero(Chunk(k))}

\* The previous invocation was of the same n / of another n.
PrevSameN == prev # <<>> /\ prev[1].n = n_arg
PrevOtherN == prev # <<>> /\ prev[1].n # n_arg

(* ------------------------------- claims ------------------------------- *)

\* C1: every rendered chunk is marked with the power of 10,000 it occupies in
\* n: a chunk with j chunks to its right is emitted with the lowercase ones
\* glyph for j and the myriad letter when j > 0, and with no myriad prefix
\* when j = 0.
C1_MarkingIsPosition ==
  [][RenderStep =>
       CarriesMarking(StripSeparator(Emitted), NumChunks - 1 - chunk_idx)]_vars

\* C2: to_greek is injective: two distinct n with the same case are rendered
\* as different strings.
C2_Injective ==
  (pc = "done" /\ PrevOtherN /\ prev[1].case = case) => prev[1].fmt # fmt

\* The glyph in column 1 of the row of `table` whose column 0 holds glyph g.
InColumnZero(table, g) == \E r \in 1..Len(table) : table[r][1] = g
ColumnOneOf(table, g) ==
  table[CHOOSE r \in 1..Len(table) : table[r][1] = g][2]
Rest(s, k) == SubSeq(s, k + 1, Len(s))

\* A lowercase rendering with every thousand, hundred, ten and one glyph
\* replaced by column 1 of its row; myriad prefixes, separators and terminal
\* marks stay as they are.
RECURSIVE UpperOf(_)
UpperOf(s) ==
  IF s = <<>> THEN <<>>
  ELSE IF MyriadPrefixAt(s, 1) THEN SubSeq(s, 1, 2) \o UpperOf(Rest(s, 2))
  ELSE IF Len(s) >= 2 /\ InColumnZero(thousands, SubSeq(s, 1, 2))
    THEN ColumnOneOf(thousands, SubSeq(s, 1, 2)) \o UpperOf(Rest(s, 2))
  ELSE IF InColumnZero(hundreds, <<s[1]>>)
    THEN ColumnOneOf(hundreds, <<s[1]>>) \o UpperOf(Rest(s, 1))
  ELSE IF InColumnZero(tens, <<s[1]>>)
    THEN ColumnOneOf(tens, <<s[1]>>) \o UpperOf(Rest(s, 1))
  ELSE IF InColumnZero(ones, <<s[1]>>)
    THEN ColumnOneOf(ones, <<s[1]>>) \o UpperOf(Rest(s, 1))
  ELSE <<s[1]>> \o UpperOf(Rest(s, 1))

PositionsOf(s, c) == {i \in 1..Len(s) : s[i] = c}
MyriadPrefixesAt(s) == {i \in 1..Len(s) : MyriadPrefixAt(s, i)}

LowerThenUpper ==
  /\ pc = "done"
  /\ n_arg > 0
  /\ PrevSameN
  /\ prev[1].case = "Lower"
  /\ case = "Upper"

C4_Separators ==
  /\ [](pc = "done" /\ n_arg > 0 =>
          /\ Cardinality(SeparatorsAt(fmt)) = Cardinality(NonZeroChunks(n_arg)) - 1
          /\ ~StartsWithSeparator(fmt)
          /\ ~EndsWithSeparator(fmt))
  /\ [][fmt' # fmt /\ pc = "chunks" =>
          /\ StartsWithSeparator(Emitted) <=> RenderedBefore(chunk_idx) # {}
          /\ SeparatorsAt(StripSeparator(Emitted)) = {}
          /\ StripSeparator(Emitted) # <<>>
          /\ ~AllZero(Chunk(chunk_idx))]_vars

C4_Witness ==
  /\ pc = "done"
  /\ TotalChunks(n_arg) = 3
  /\ Cardinality(NonZeroChunks(n_arg)) = 2
  /\ Cardinality(SeparatorsAt(fmt)) = 1

\* C5: to_greek(0, case) is the single Greek Zero Sign U+1018A for both
\* cases, and nothing else is produced: no digit is extracted and no chunk
\* is rendered.
C5_Zero ==
  /\ (pc = "done" /\ n_arg = 0) =>
        fmt = <<65930>> /\ decimal_digits = <<>> /\ chunk_idx = 0
  /\ (pc = "done" /\ n_arg = 0 /\ PrevSameN) => prev[1].fmt = fmt

C5_Witness ==
  /\ pc = "done"
  /\ n_arg = 0
  /\ case = "Upper"
  /\ PrevSameN
  /\ prev[1].case = "Lower"
  /\ fmt = <<65930>>

\* C7: M_power starts at the number of chunks minus one and is decremented,
\* floored at zero, only after a rendered chunk; a skipped all-zero chunk
\* emits nothing and leaves it alone.  So the k-th rendered chunk carries the
\* myriad prefix for max(total - 1 - k, 0), whatever was skipped before it.
C7_RunningMyriadPower ==
  /\ [](pc = "chunks" =>
          M_power = Max(NumChunks - 1 - Cardinality(RenderedBefore(chunk_idx)), 0))
  /\ [][/\ RenderStep =>
             /\ CarriesMarking(StripSeparator(Emitted),
                  Max(NumChunks - 1 - Cardinality(RenderedBefore(chunk_idx)), 0))
             /\ M_power' = Max(M_power - 1, 0)
        /\ SkipStep => M_power' = M_power /\ AllZero(Chunk(chunk_idx))
        /\ (pc = "chunks" /\ pc' = "chunks" /\ AllZero(Chunk(chunk_idx)))
             => fmt' = fmt]_vars

C7_Witness ==
  /\ pc = "done"
  /\ NumChunks = 3
  /\ AllZero(Chunk(1))
  /\ ~AllZero(Chunk(2))
  /\ Cardinality(SeparatorsAt(fmt)) = 1
  /\ MyriadPrefixesAt(fmt) = {1, 7}

\* The digits of a 4-digit group, and the glyphs the tables hold for them in
\* the order thousand, hundred, ten, one, nothing standing for a zero digit.
PlaceGlyphs(c, col) ==
  LET th == c \div 1000
      h == (c \div 100) % 10
      t == (c \div 10) % 10
      o == c % 10
  IN (IF th # 0 THEN thousands[th][col + 1] ELSE <<>>)
       \o (IF h # 0 THEN hundreds[h][col + 1] ELSE <<>>)
       \o (IF t # 0 THEN tens[t][col + 1] ELSE <<>>)
       \o (IF o # 0 THEN ones[o][col + 1] ELSE <<>>)

\* C8: what a rendered chunk contributes after its separator and myriad
\* prefix is one glyph per non-zero digit in the order thousand, hundred, ten,
\* one, followed by the keraia U+0374 if and only if the thousand digit is 0;
\* so the output holds as many keraia as rendered chunks with thousand digit 0.
C8_ChunkBody ==
  /\ [](pc = "done" /\ n_arg > 0 =>
          Cardinality(PositionsOf(fmt, 884)) =
            Cardinality({j \in NonZeroChunks(n_arg) : ChunkAt(n_arg, j) < 1000}))
  /\ [][RenderStep =>
          LET c == ChunkAt(n_arg, NumChunks - 1 - chunk_idx)
          IN StripMyriadPrefix(StripSeparator(Emitted)) =
               PlaceGlyphs(c, CaseColumn(case))
                 \o (IF c \div 1000 = 0 THEN <<884>> ELSE <<>>)]_vars

C8_Witness ==
  /\ pc = "done"
  /\ case = "Upper"
  /\ TotalChunks(n_arg) = 3
  /\ ChunkAt(n_arg, 1) = 241
  /\ ChunkAt(n_arg, 0) = 1005
  /\ Cardinality(PositionsOf(fmt, 884)) = 2

\* C9: for n > 0 the digit sequence the chunk loop walks is most significant
\* first, of digits 0..9, of a length that is a positive multiple of 4, with
\* positional value n and 0 to 3 leading zeros, so that the first chunk is not
\* all-zero and is the first chunk rendered.
C9_DigitSequence ==
  pc = "chunks" =>
    /\ n_arg > 0
    /\ \A k \in 1..Len(decimal_digits) : decimal_digits[k] \in 0..9
    /\ Len(decimal_digits) > 0
    /\ Len(decimal_digits) % 4 = 0
    /\ \A k \in 1..Len(decimal_digits) :
          decimal_digits[k] = DigitAt(n_arg, Len(decimal_digits) - k)
    /\ Len(decimal_digits) - NumDigits(n_arg) \in 0..3
    /\ ~AllZero(Chunk(0))
    /\ chunk_idx = 0 => fmt = <<>> /\ ~previous_has_number
    /\ chunk_idx >= 1 => 0 \in RenderedBefore(chunk_idx) /\ previous_has_number

C9_Witness ==
  /\ pc = "chunks"
  /\ chunk_idx = 1
  /\ Len(decimal_digits) = 12
  /\ NumDigits(n_arg) = 9
  /\ fmt # <<>>

\* C10: to_greek never panics: the subtraction len/4 - 1 does not underflow,
\* and at every step of the chunk loop M_power <= 9, the chunk has 4 digits,
\* and every table row indexed is digit - 1 in 0..8 for a non-zero digit.
C10_NoPanic ==
  /\ pc # "panic"
  /\ (pc = "pad" /\ Len(decimal_digits) % 4 = 0) => Len(decimal_digits) \div 4 >= 1
  /\ pc = "chunks" =>
       /\ M_power \in 0..9
       /\ chunk_idx < NumChunks =>
            /\ Len(Chunk(chunk_idx)) = 4
            /\ \A k \in 1..4 : Chunk(chunk_idx)[k] \in 0..9
            /\ ~ChunkPanics(Chunk(chunk_idx), CaseColumn(case), M_power,
                            previous_has_number)

C10_Witness ==
  /\ pc = "done"
  /\ NumChunks = 3
  /\ \A i \in 0..2 : ~AllZero(Chunk(i))
  /\ \E i \in 0..2 : Chunk(i)[2] = 0 /\ Chunk(i)[1] # 0
  /\ Len(fmt) > 12

=============================================================================
